---- MODULE Spec2Model ----
(***************************************************************************)
(* awair-monitor: one run of the fetch / decode / publish pipeline of      *)
(* src/main.rs.  main loads the configuration, run computes the latest     *)
(* complete five minute window, sends one GET to the Awair API, checks the *)
(* status, decodes the JSON body and hands the data points to              *)
(* post_to_influxdb, which writes them with try_for_each_concurrent(10).   *)
(***************************************************************************)
EXTENDS Integers, Sequences, FiniteSets, TLC

VARIABLES
    pc,           \* position of main: load_config, run, send, json, publish, main, exited
    config,       \* Option<Config>: None until load_config returned Ok
    now,          \* Option<i64>: the clock reading of latest_complete_five_second_period
    window,       \* Option<(lower, upper)> returned by latest_complete_five_second_period
    prevNow,      \* the clock reading of the invocation before (a process run earlier)
    prevWindow,   \* the window of the invocation before
    httpSent,     \* number of GET requests sent to the Awair API
    apiResponse,  \* Option<response> delivered by request.send()
    jsonCalls,    \* number of calls of response.json()
    payload,      \* the decoded Response.data, a sequence of DataPoint
    nextIdx,      \* position of the iterator over payload.data (1-based, next to pull)
    streamDone,   \* try_for_each_concurrent: this.stream is None
    futures,      \* try_for_each_concurrent: indices of the futures in FuturesUnordered
    unpolled,     \* the futures pushed and not polled yet (no request sent)
    at,           \* position in the poll loop: "stream" or "futures"
    queries,      \* the WriteQuery built for each data point pulled, in pull order
    startLog,     \* indices of the writes whose request was started, in start order
    done,         \* indices of the writes that completed with Ok
    failed,       \* indices of the writes whose Err was returned to the poll loop, in order
    dropped,      \* futures dropped before they completed
    db,           \* the writes the database has acknowledged: its points of this run
    publishResult,\* Option<Result> of post_to_influxdb
    result,       \* Option<Result> of load_config().and_then(run)
    exitCode      \* Option<i32> passed to exit()

vars == <<pc, config, now, window, prevNow, prevWindow, httpSent, apiResponse,
          jsonCalls, payload, nextIdx, streamDone, futures, unpolled, at, queries,
          startLog, done, failed, dropped, db, publishResult, result, exitCode>>

pipelineVars == <<pc, config, httpSent, apiResponse, jsonCalls, payload, nextIdx,
                  streamDone, futures, unpolled, at, queries, startLog, done, failed,
                  dropped, db, publishResult, result, exitCode>>

publishVars == <<nextIdx, streamDone, futures, unpolled, at, queries, startLog, done,
                 failed, dropped, db, publishResult>>

----------------------------------------------------------------------------
(* Bounds of the model *)

\* largest number of data points in a response body
MaxRecords == 11

\* the window calculator is applied to every clock reading 0..MaxNow
MaxNow == 620

----------------------------------------------------------------------------
(* Option and Result values *)

None == <<>>
Some(x) == <<x>>
Get(o) == o[1]

Ok == [ok |-> TRUE, err |-> [kind |-> "none", detail |-> 0]]
Err(kind, detail) == [ok |-> FALSE, err |-> [kind |-> kind, detail |-> detail]]

Range(s) == {s[k] : k \in 1..Len(s)}

----------------------------------------------------------------------------
(* Config: the environment variables of #[derive(Envconfig)] struct Config *)

AllVars == {"AWAIR_API_KEY", "AWAIR_DEVICE_TYPE", "AWAIR_DEVICE_ID", "INFLUXDB_URL",
            "INFLUXDB_USERNAME", "INFLUXDB_PASSWORD", "INFLUXDB_DATABASE"}

\* Option<String> and default = "" make these two optional
RequiredVars == AllVars \ {"INFLUXDB_USERNAME", "INFLUXDB_PASSWORD"}

\* the environments a run is started in: everything set, or one variable unset
Envs == {AllVars} \cup {AllVars \ {v} : v \in AllVars}

\* Config::init(): Err naming a missing variable, else the Config
load_config(env) ==
    IF RequiredVars \subseteq env
    THEN [ok |-> TRUE,
          config |-> [device_id |-> "awair-r2_1234",
                      username |-> IF "INFLUXDB_USERNAME" \in env
                                   THEN Some("user") ELSE None,
                      password |-> IF "INFLUXDB_PASSWORD" \in env
                                   THEN "secret" ELSE ""],
          err |-> Ok.err]
    ELSE [ok |-> FALSE,
          config |-> [device_id |-> "", username |-> None, password |-> ""],
          err |-> [kind |-> "Config",
                   detail |-> Cardinality(RequiredVars \ env)]]

----------------------------------------------------------------------------
(* Window calculator *)

\* Duration::minutes(5).num_seconds()
PeriodSeconds == 5 * 60

\* Rust's % on i64: the remainder has the sign of the dividend
RustRem(a, b) == IF a >= 0 THEN a % b ELSE -((-a) % b)

\* a period of five seconds, as the function's name has it, instead of five minutes
latest_complete_period_of_five_seconds(t) ==
    LET upper_timestamp == t - RustRem(t, 5)
    IN  <<upper_timestamp - 5, upper_timestamp>>

\* the last five minutes up to now, not aligned to the period
latest_five_minutes_unaligned(t) == <<t - PeriodSeconds, t>>

\* latest_complete_five_second_period with Utc::now().timestamp() = t
latest_complete_five_second_period(t) ==
    LET upper_timestamp == t - RustRem(t, PeriodSeconds)
        lower == upper_timestamp - PeriodSeconds
    IN  <<lower, upper_timestamp>>

\* 2024-01-01T00:00:00Z and 2024-01-01T00:07:31Z in epoch seconds
Epoch2024 == 19723 * 86400
ExampleNow == Epoch2024 + 7 * 60 + 31

\* Utc::now() panics for a system time before the Unix epoch: readings are >= 0
ClockReadings == (0..MaxNow) \cup {ExampleNow}

\* the clock readings of the pipeline runs
RunClock == {ExampleNow}

----------------------------------------------------------------------------
(* Measurement model *)

\* the serde(rename) wire names of enum MeasurementType
WireNames == {"temp", "humid", "co2", "voc", "dust", "pm25"}

MeasurementTypes == {"Temperature", "Humidity", "CO2", "VOC", "Dust", "PM25"}

\* the rename of Dust pasted onto PM25 as well: "pm25" decodes to Dust
DeserializePm25AsDust(wire) ==
    CASE wire = "temp"  -> Some("Temperature")
      [] wire = "humid" -> Some("Humidity")
      [] wire = "co2"   -> Some("CO2")
      [] wire = "voc"   -> Some("VOC")
      [] wire = "dust"  -> Some("Dust")
      [] wire = "pm25"  -> Some("Dust")
      [] OTHER          -> None

\* #[derive(Deserialize)] on MeasurementType: the variant, or "unknown variant"
DeserializeMeasurementType(wire) ==
    CASE wire = "temp"  -> Some("Temperature")
      [] wire = "humid" -> Some("Humidity")
      [] wire = "co2"   -> Some("CO2")
      [] wire = "voc"   -> Some("VOC")
      [] wire = "dust"  -> Some("Dust")
      [] wire = "pm25"  -> Some("PM25")
      [] OTHER          -> None

\* MeasurementType::field_name
field_name(kind) ==
    CASE kind = "Temperature" -> "temperature"
      [] kind = "Humidity"    -> "humidity"
      [] kind = "CO2"         -> "CO2"
      [] kind = "VOC"         -> "VOC"
      [] kind = "Dust"        -> "dust"
      [] kind = "PM25"        -> "PM25"

----------------------------------------------------------------------------
(* The response bodies of the Awair API *)

M(comp, value) == [comp |-> comp, value |-> value]

\* the shapes of the data points of a body, as JSON objects
WireShapes ==
    << [sensors |-> <<M("temp", 21)>>, indices |-> <<M("co2", 450)>>],
       [sensors |-> <<M("temp", 20), M("humid", 40), M("co2", 600), M("voc", 100),
                      M("dust", 5), M("pm25", 7)>>,
        indices |-> <<M("temp", 1), M("humid", 0)>>],
       [sensors |-> <<M("temp", 19), M("temp", 23)>>, indices |-> <<M("temp", 2)>>],
       [sensors |-> <<>>, indices |-> <<>>] >>

\* data points with a "comp" the enum does not know, in either bucket
BadShapes ==
    << [sensors |-> <<M("temp", 21), M("lux", 300)>>, indices |-> <<>>],
       [sensors |-> <<M("temp", 21)>>, indices |-> <<M("co2", 1), M("CO2", 1)>>] >>

WireDataPoint(i, bad) ==
    LET shape == IF i = bad
                 THEN BadShapes[(i % Len(BadShapes)) + 1]
                 ELSE WireShapes[((i - 1) % Len(WireShapes)) + 1]
    IN  [timestamp |-> i, score |-> 80 + i,
         sensors |-> shape.sensors, indices |-> shape.indices]

\* a JSON body with n data points, the one at position bad (0: none) unknown to the enum
JsonBody(n, bad) == [json |-> TRUE, data |-> [i \in 1..n |-> WireDataPoint(i, bad)]]

\* a body that is not JSON of the expected structure
MalformedBody == [json |-> FALSE, data |-> <<>>]

Bodies == {JsonBody(n, bad) : n \in 0..MaxRecords, bad \in 0..MaxRecords} \cup {MalformedBody}

Statuses == {200, 204, 401, 500}

----------------------------------------------------------------------------
(* Decoding: response.json::<Response>() *)

DecodeMeasurements(ms) ==
    IF \E k \in 1..Len(ms) : DeserializeMeasurementType(ms[k].comp) = None
    THEN None
    ELSE Some([k \in 1..Len(ms) |->
                 [kind |-> Get(DeserializeMeasurementType(ms[k].comp)),
                  value |-> ms[k].value]])

\* #[derive(Deserialize)] on DataPoint
DecodeDataPoint(w) ==
    IF DecodeMeasurements(w.sensors) = None \/ DecodeMeasurements(w.indices) = None
    THEN None
    ELSE Some([timestamp |-> w.timestamp, score |-> w.score,
               sensors |-> Get(DecodeMeasurements(w.sensors)),
               indices |-> Get(DecodeMeasurements(w.indices))])

\* a lenient decoder that keeps the data points in front of the first one it cannot decode
DecodeResponsePrefix(body) ==
    IF ~body.json THEN None
    ELSE LET bad == {i \in 1..Len(body.data) : DecodeDataPoint(body.data[i]) = None}
             n == IF bad = {} THEN Len(body.data)
                  ELSE (CHOOSE i \in bad : \A j \in bad : i <= j) - 1
         IN  Some([i \in 1..n |-> Get(DecodeDataPoint(body.data[i]))])

\* #[derive(Deserialize)] on Response: every data point decodes, or the whole body fails
DecodeResponse(body) ==
    IF ~body.json \/ \E i \in 1..Len(body.data) : DecodeDataPoint(body.data[i]) = None
    THEN None
    ELSE Some([i \in 1..Len(body.data) |-> Get(DecodeDataPoint(body.data[i]))])

----------------------------------------------------------------------------
(* Record transformer: the closure of measurements.map in post_to_influxdb *)

RECURSIVE AddFieldsByName(_, _, _)
\* fields kept in a map: a field added under a name already present replaces it
AddFieldsByName(fields, ms, suffix) ==
    IF ms = <<>> THEN fields
    ELSE LET name == field_name(Head(ms).kind) \o suffix
             kept == SelectSeq(fields, LAMBDA f : f[1] # name)
         IN  AddFieldsByName(Append(kept, <<name, Head(ms).value>>), Tail(ms), suffix)

RECURSIVE AddFields(_, _, _)
\* add_field for each measurement of a bucket, in order; add_field appends
AddFields(fields, ms, suffix) ==
    IF ms = <<>> THEN fields
    ELSE AddFields(Append(fields, <<field_name(Head(ms).kind) \o suffix, Head(ms).value>>),
                   Tail(ms), suffix)

WriteQuery(measurement, cfg) ==
    [name |-> "awair",
     timestamp |-> measurement.timestamp,
     fields |-> AddFields(AddFields(<< <<"score", measurement.score>> >>,
                                    measurement.sensors, ".sensor"),
                          measurement.indices, ".index"),
     tags |-> << <<"device_id", cfg.device_id>> >>]


----------------------------------------------------------------------------
(* The run: main, load_config, run *)

Init ==
    /\ pc = "load_config"
    /\ config = None
    /\ now = None
    /\ window = None
    /\ prevNow = None
    /\ prevWindow = None
    /\ httpSent = 0
    /\ apiResponse = None
    /\ jsonCalls = 0
    /\ payload = <<>>
    /\ nextIdx = 1
    /\ streamDone = FALSE
    /\ futures = {}
    /\ unpolled = {}
    /\ at = "stream"
    /\ queries = <<>>
    /\ startLog = <<>>
    /\ done = {}
    /\ failed = <<>>
    /\ dropped = {}
    /\ db = {}
    /\ publishResult = None
    /\ result = None
    /\ exitCode = None

\* load_config().then(..): run is entered whatever load_config returned
LoadConfigRunsAnyway ==
    /\ pc = "load_config"
    /\ \E env \in Envs :
         LET r == load_config(env) IN
         IF r.ok
         THEN /\ config' = Some(r.config)
              /\ result' = result
         ELSE /\ config' = config
              /\ result' = Some(Err(r.err.kind, r.err.detail))
    /\ pc' = "run"
    /\ UNCHANGED <<now, window, prevNow, prevWindow, httpSent, apiResponse, jsonCalls,
                   payload, exitCode>>
    /\ UNCHANGED publishVars

\* load_config().and_then(run): run is entered only with a Config
LoadConfig ==
    /\ pc = "load_config"
    /\ \E env \in Envs :
         LET r == load_config(env) IN
         IF r.ok
         THEN /\ config' = Some(r.config)
              /\ pc' = "run"
              /\ result' = result
         ELSE /\ config' = config
              /\ pc' = "main"
              /\ result' = Some(Err(r.err.kind, r.err.detail))
    /\ UNCHANGED <<now, window, prevNow, prevWindow, httpSent, apiResponse, jsonCalls,
                   payload, exitCode>>
    /\ UNCHANGED publishVars

\* run, up to request.send(): the window, the url, the request
RunSend ==
    /\ pc = "run"
    /\ \E t \in RunClock :
         /\ now' = Some(t)
         /\ window' = Some(latest_complete_five_second_period(t))
    /\ httpSent' = httpSent + 1
    /\ pc' = "send"
    /\ UNCHANGED <<config, prevNow, prevWindow, apiResponse, jsonCalls, payload,
                   result, exitCode>>
    /\ UNCHANGED publishVars

\* a check that lets every 2xx status through: !response.status().is_success()
IsNotSuccess(status) == status \notin 200..299

\* only a server error is refused: response.status().is_server_error()
IsServerError(status) == status >= 500

\* response.status() != StatusCode::OK
IsNotOK(status) == status # 200

\* a transport failure makes run build and send the request again
SendFailsRetries ==
    /\ pc = "send"
    /\ pc' = "run"
    /\ UNCHANGED <<config, now, window, prevNow, prevWindow, httpSent, apiResponse,
                   jsonCalls, payload, result, exitCode>>
    /\ UNCHANGED publishVars

\* request.send().await? fails in the transport
SendFails ==
    /\ pc = "send"
    /\ result' = Some(Err("Transport", 0))
    /\ pc' = "main"
    /\ UNCHANGED <<config, now, window, prevNow, prevWindow, httpSent, apiResponse,
                   jsonCalls, payload, exitCode>>
    /\ UNCHANGED publishVars

\* request.send().await? returns a response; run checks its status
SendReturns ==
    /\ pc = "send"
    /\ \E status \in Statuses, body \in Bodies :
         /\ apiResponse' = Some([status |-> status, body |-> body])
         /\ IF IsNotOK(status)
            THEN /\ result' = Some(Err("InvalidResponse", status))
                 /\ pc' = "main"
            ELSE /\ result' = result
                 /\ pc' = "json"
    /\ UNCHANGED <<config, now, window, prevNow, prevWindow, httpSent, jsonCalls,
                   payload, exitCode>>
    /\ UNCHANGED publishVars

\* response.json().await?, then post_to_influxdb is entered with payload.data.iter()
JsonReturns ==
    /\ pc = "json"
    /\ jsonCalls' = jsonCalls + 1
    /\ LET decoded == DecodeResponse(Get(apiResponse).body) IN
       IF decoded = None
       THEN /\ result' = Some(Err("Decode", 0))
            /\ pc' = "main"
            /\ payload' = payload
       ELSE /\ result' = result
            /\ pc' = "publish"
            /\ payload' = Get(decoded)
    /\ UNCHANGED <<config, now, window, prevNow, prevWindow, httpSent, apiResponse,
                   exitCode>>
    /\ UNCHANGED publishVars

\* both arms of the match exit with 0
ExitCodeAlwaysZero(res) == 0

\* match result { Ok(_) => exit(0), Err(err) => { error!(..); exit(1) } }
ExitCodeOf(res) == IF res.ok THEN 0 ELSE 1

\* main, after load_config().and_then(run).await
MainExit ==
    /\ pc = "main"
    /\ exitCode' = Some(ExitCodeOf(Get(result)))
    /\ pc' = "exited"
    /\ UNCHANGED <<config, now, window, prevNow, prevWindow, httpSent, apiResponse,
                   jsonCalls, payload, result>>
    /\ UNCHANGED publishVars


----------------------------------------------------------------------------
(* post_to_influxdb: stream::iter(..).map(Ok).try_for_each_concurrent(10, ..)  *)
(* The future polls in a loop: (1) while fewer than the limit of futures are   *)
(* held, take the next element of the stream and push the future of its write; *)
(* (2) poll the held futures (FuturesUnordered, first in first out for the     *)
(* futures just pushed): a future polled for the first time sends its request, *)
(* a write that returns Ok is removed, a write that returns Err makes the loop *)
(* set the stream to None, drop every held future and return that Err.         *)

\* a limit that admits one write more
LimitPlusOne == 10 + 1

\* the limit argument of try_for_each_concurrent
Limit == 10

\* this.limit.map(|limit| limit.get() > this.futures.len())
BelowLimit(futs) == Limit > Cardinality(futs)

\* an iterator that ends one element early
IterNextSkipsLast(idx, data) == IF idx < Len(data) THEN Some(idx) ELSE None

\* Iterator::next of payload.data.iter(): the index of the next data point, if any
IterNext(idx, data) == IF idx <= Len(data) THEN Some(idx) ELSE None

Min(S) == CHOOSE x \in S : \A y \in S : x <= y

\* step (1) of the loop: the limit check and stream.try_poll_next
PollStream ==
    /\ pc = "publish"
    /\ at = "stream"
    /\ at' = "futures"
    /\ IF BelowLimit(futures) /\ ~streamDone
       THEN LET elem == IterNext(nextIdx, payload) IN
            IF elem # None
            THEN /\ queries' = Append(queries, WriteQuery(payload[Get(elem)], Get(config)))
                 /\ futures' = futures \cup {Get(elem)}
                 /\ unpolled' = unpolled \cup {Get(elem)}
                 /\ nextIdx' = nextIdx + 1
                 /\ streamDone' = streamDone
            ELSE /\ streamDone' = TRUE
                 /\ UNCHANGED <<queries, futures, unpolled, nextIdx>>
       ELSE UNCHANGED <<queries, futures, unpolled, nextIdx, streamDone>>
    /\ UNCHANGED <<pc, config, now, window, prevNow, prevWindow, httpSent, apiResponse,
                   jsonCalls, payload, startLog, done, failed, dropped, db, publishResult,
                   result, exitCode>>

\* the future pushed last is polled first
StartWriteNewestFirst ==
    /\ pc = "publish"
    /\ at = "futures"
    /\ unpolled # {}
    /\ LET i == CHOOSE x \in unpolled : \A y \in unpolled : x >= y IN
         /\ unpolled' = unpolled \ {i}
         /\ startLog' = Append(startLog, i)
    /\ UNCHANGED <<pc, config, now, window, prevNow, prevWindow, httpSent, apiResponse,
                   jsonCalls, payload, nextIdx, streamDone, futures, at, queries, done,
                   failed, dropped, db, publishResult, result, exitCode>>

\* step (2): the oldest future not polled yet is polled: influx_db_client.query sends
StartWrite ==
    /\ pc = "publish"
    /\ at = "futures"
    /\ unpolled # {}
    /\ LET i == Min(unpolled) IN
         /\ unpolled' = unpolled \ {i}
         /\ startLog' = Append(startLog, i)
    /\ UNCHANGED <<pc, config, now, window, prevNow, prevWindow, httpSent, apiResponse,
                   jsonCalls, payload, nextIdx, streamDone, futures, at, queries, done,
                   failed, dropped, db, publishResult, result, exitCode>>

\* step (2): the write of data point i returns Ok and its future is removed
WriteOk(i) ==
    /\ pc = "publish"
    /\ at = "futures"
    /\ i \in futures \ unpolled
    /\ futures' = futures \ {i}
    /\ done' = done \cup {i}
    /\ db' = db \cup {i}
    /\ at' = "stream"
    /\ UNCHANGED <<pc, config, now, window, prevNow, prevWindow, httpSent, apiResponse,
                   jsonCalls, payload, nextIdx, streamDone, unpolled, queries, startLog,
                   failed, dropped, publishResult, result, exitCode>>

\* for_each_concurrent semantics: the Err is noted, the stream stays open and the loop
\* keeps dispatching; the first Err is what publish reports
WriteErrKeepsDispatching(i) ==
    /\ pc = "publish"
    /\ at = "futures"
    /\ i \in futures \ unpolled
    /\ failed' = Append(failed, i)
    /\ futures' = futures \ {i}
    /\ at' = "stream"
    /\ publishResult' = Some(Err("Influx", Append(failed, i)[1]))
    /\ result' = Some(Err("Influx", Append(failed, i)[1]))
    /\ UNCHANGED <<pc, config, now, window, prevNow, prevWindow, httpSent, apiResponse,
                   jsonCalls, payload, nextIdx, streamDone, unpolled, queries, startLog,
                   done, dropped, db, exitCode>>

\* the stream is set to None but the held futures are kept and polled to completion
WriteErrLetsInFlightFinish(i) ==
    /\ pc = "publish"
    /\ at = "futures"
    /\ i \in futures \ unpolled
    /\ failed' = Append(failed, i)
    /\ streamDone' = TRUE
    /\ futures' = futures \ {i}
    /\ at' = "stream"
    /\ publishResult' = Some(Err("Influx", Append(failed, i)[1]))
    /\ result' = Some(Err("Influx", Append(failed, i)[1]))
    /\ UNCHANGED <<pc, config, now, window, prevNow, prevWindow, httpSent, apiResponse,
                   jsonCalls, payload, nextIdx, unpolled, queries, startLog, done,
                   dropped, db, exitCode>>

\* the held futures are polled to completion and the Err seen last is the one reported
WriteErrReportsLast(i) ==
    /\ pc = "publish"
    /\ at = "futures"
    /\ i \in futures \ unpolled
    /\ failed' = Append(failed, i)
    /\ streamDone' = TRUE
    /\ futures' = futures \ {i}
    /\ at' = "stream"
    /\ publishResult' = Some(Err("Influx", i))
    /\ result' = Some(Err("Influx", i))
    /\ UNCHANGED <<pc, config, now, window, prevNow, prevWindow, httpSent, apiResponse,
                   jsonCalls, payload, nextIdx, unpolled, queries, startLog, done,
                   dropped, db, exitCode>>

\* the Err of a write is discarded (.ok() in place of map_err): the future just ends
WriteErrSwallowed(i) ==
    /\ pc = "publish"
    /\ at = "futures"
    /\ i \in futures \ unpolled
    /\ failed' = Append(failed, i)
    /\ futures' = futures \ {i}
    /\ at' = "stream"
    /\ UNCHANGED <<pc, config, now, window, prevNow, prevWindow, httpSent, apiResponse,
                   jsonCalls, payload, nextIdx, streamDone, unpolled, queries, startLog,
                   done, dropped, db, publishResult, result, exitCode>>

\* on an Err the points this run has written are deleted again before returning
WriteErrRollsBack(i) ==
    /\ pc = "publish"
    /\ at = "futures"
    /\ i \in futures \ unpolled
    /\ failed' = Append(failed, i)
    /\ streamDone' = TRUE
    /\ dropped' = dropped \cup (futures \ {i})
    /\ futures' = {}
    /\ unpolled' = {}
    /\ db' = {}
    /\ publishResult' = Some(Err("Influx", i))
    /\ result' = Some(Err("Influx", i))
    /\ pc' = "main"
    /\ UNCHANGED <<config, now, window, prevNow, prevWindow, httpSent, apiResponse,
                   jsonCalls, payload, nextIdx, at, queries, startLog, done, exitCode>>

\* step (2): the write of data point i returns Err: the stream is set to None, the
\* held futures are dropped and the Err is returned, through run's ?, to main
WriteErr(i) ==
    /\ pc = "publish"
    /\ at = "futures"
    /\ i \in futures \ unpolled
    /\ failed' = Append(failed, i)
    /\ streamDone' = TRUE
    /\ dropped' = dropped \cup (futures \ {i})
    /\ futures' = {}
    /\ unpolled' = {}
    /\ publishResult' = Some(Err("Influx", i))
    /\ result' = Some(Err("Influx", i))
    /\ pc' = "main"
    /\ UNCHANGED <<db, config, now, window, prevNow, prevWindow, httpSent, apiResponse,
                   jsonCalls, payload, nextIdx, at, queries, startLog, done, exitCode>>

\* step (2) finds no future ready and the iteration made progress: loop again
PollNextPending ==
    /\ pc = "publish"
    /\ at = "futures"
    /\ unpolled = {}
    /\ BelowLimit(futures) /\ ~streamDone
    /\ at' = "stream"
    /\ UNCHANGED <<pc, config, now, window, prevNow, prevWindow, httpSent, apiResponse,
                   jsonCalls, payload, nextIdx, streamDone, futures, unpolled, queries,
                   startLog, done, failed, dropped, db, publishResult, result, exitCode>>

\* with nothing left to do the loop returns Pending instead of Ok: nothing wakes it
PublishNeverReturns ==
    /\ pc = "publish"
    /\ at = "futures"
    /\ futures = {}
    /\ streamDone
    /\ UNCHANGED vars

\* a publish that wrote nothing is reported as an error
PublishEmptyIsError ==
    /\ pc = "publish"
    /\ at = "futures"
    /\ futures = {}
    /\ streamDone
    /\ publishResult' = IF done = {} THEN Some(Err("Influx", 0)) ELSE Some(Ok)
    /\ result' = IF done = {} THEN Some(Err("Influx", 0)) ELSE Some(Ok)
    /\ pc' = "main"
    /\ UNCHANGED <<config, now, window, prevNow, prevWindow, httpSent, apiResponse,
                   jsonCalls, payload, nextIdx, streamDone, futures, unpolled, at,
                   queries, startLog, done, failed, dropped, db, exitCode>>

\* step (2) finds no future left and the stream is None: Ok(()), through run, to main
PublishOk ==
    /\ pc = "publish"
    /\ at = "futures"
    /\ futures = {}
    /\ streamDone
    /\ publishResult' = Some(Ok)
    /\ result' = Some(Ok)
    /\ pc' = "main"
    /\ UNCHANGED <<config, now, window, prevNow, prevWindow, httpSent, apiResponse,
                   jsonCalls, payload, nextIdx, streamDone, futures, unpolled, at,
                   queries, startLog, done, failed, dropped, db, exitCode>>

Next ==
    \/ LoadConfig
    \/ RunSend
    \/ SendFails
    \/ SendReturns
    \/ JsonReturns
    \/ PollStream
    \/ StartWrite
    \/ \E i \in 1..MaxRecords + 1 : WriteOk(i)
    \/ \E i \in 1..MaxRecords + 1 : WriteErr(i)
    \/ PollNextPending
    \/ PublishOk
    \/ MainExit

Spec == Init /\ [][Next]_vars


----------------------------------------------------------------------------
(* The window calculator on its own: two invocations, as the scheduler     *)
(* starts one process per period and each reads the clock once.            *)

WindowCall ==
    /\ prevNow = None
    /\ \E t \in ClockReadings :
         /\ now' = Some(t)
         /\ window' = Some(latest_complete_five_second_period(t))
    /\ prevNow' = now
    /\ prevWindow' = window
    /\ UNCHANGED pipelineVars

NextWindow == WindowCall

SpecWindow == Init /\ [][NextWindow]_vars


----------------------------------------------------------------------------
(* Properties *)

Started == Range(startLog)
Completed == done \cup Range(failed)

\* the writes whose request was started and that have not returned
Outstanding == Started \ Completed

\* the status and body the API answered with
Status == Get(apiResponse).status
Body == Get(apiResponse).body

\* a measurement of the body, in either bucket, whose "comp" is no wire name of the enum
HasUnknownComp(body) ==
    \E i \in 1..Len(body.data) :
        \/ \E k \in 1..Len(body.data[i].sensors) :
              body.data[i].sensors[k].comp \notin WireNames
        \/ \E k \in 1..Len(body.data[i].indices) :
              body.data[i].indices[k].comp \notin WireNames

Undecodable(body) == ~body.json \/ HasUnknownComp(body)

\* C1: during publish at most 10 writes are started and not yet completed, whatever
\* the number of records; the number of writes started in all is not bounded by 10.
C1_AtMostTenInFlight ==
    pc = "publish" => Cardinality(Outstanding) <= 10 /\ Cardinality(futures) <= 10

\* C1 witness: ten writes outstanding while more than ten have been started in all
C1_Witness ==
    pc = "publish" /\ Cardinality(Outstanding) = 10 /\ Len(startLog) > 10

\* C2 as stated: when the run has ended on a write failure, every write that had been
\* started has run to completion (Ok or Err); none was abandoned.
C2_InFlightWritesFinish ==
    (pc = "exited" /\ failed # <<>>) => Started \subseteq Completed

\* C2 amended: the step that returns a write's Err drops every other future held (the
\* writes in flight are cancelled, not awaited), and after it no write completes.
C2_InFlightWritesDropped ==
    [][ /\ (failed' # failed =>
              /\ futures' = {}
              /\ dropped' = dropped \cup (futures \ Range(failed'))
              /\ done' = done
              /\ pc' = "main")
        /\ (failed # <<>> => done' = done /\ failed' = failed /\ dropped' = dropped)
      ]_vars

\* C2 witness: the run ended on a failure with a started write dropped unfinished
C2_Witness ==
    pc = "exited" /\ failed # <<>> /\ (dropped \cap Started) # {}

\* C3: once a write failure has been returned to publish, no write is started (and no
\* record is pulled from the stream) afterwards.
C3_NoStartAfterFailure ==
    [][failed # <<>> => startLog' = startLog /\ queries' = queries]_vars

\* C3 witness: a failure seen while records of the payload were not dispatched yet
C3_Witness ==
    pc = "exited" /\ failed # <<>> /\ nextIdx <= Len(payload)

\* C4: if any write fails, publish (and the run) returns an error, and it is the error
\* of the first failure returned to the poll loop.
C4_FirstFailureReturned ==
    failed # <<>> =>
        /\ publishResult = Some(Err("Influx", failed[1]))
        /\ result = publishResult

\* C4 witness: a failure of a write while another write, started earlier, was in flight
C4_Witness ==
    /\ failed # <<>>
    /\ \E j \in dropped \cap Started : j < failed[1]

\* C5: publish returns Ok only if a write was issued for every record of the input and
\* each of them returned Ok: nothing unwritten, in flight or failed.
C5_OkOnlyIfAllWritten ==
    publishResult = Some(Ok) =>
        /\ Len(queries) = Len(payload)
        /\ Started = 1..Len(payload)
        /\ done = 1..Len(payload)
        /\ futures = {}
        /\ failed = <<>>
        /\ dropped = {}

\* C5 witness: publish returned Ok for a payload of more records than the limit
C5_Witness ==
    publishResult = Some(Ok) /\ Len(payload) > Limit

\* C6: a status other than 200 fails the run with an invalid-response error carrying
\* the status; the body is never JSON-decoded and no database write is started.
C6_Non200IsInvalidResponse ==
    (apiResponse # None /\ Status # 200) =>
        /\ result = Some(Err("InvalidResponse", Status))
        /\ jsonCalls = 0
        /\ payload = <<>>
        /\ queries = <<>>
        /\ startLog = <<>>
        /\ pc \in {"main", "exited"}
        /\ (pc = "exited" => exitCode = Some(1))

\* C6 witness: a 401 whose body would have decoded to data points, run ended
C6_Witness ==
    /\ pc = "exited"
    /\ apiResponse # None
    /\ Status = 401
    /\ ~Undecodable(Body)
    /\ Len(Body.data) > 0

\* C7: a 200 body with an unknown "comp" anywhere (or a malformed body) fails the fetch
\* with a decode error and no data point of it is written, not even those in front.
C7_NoPartialIngestion ==
    (apiResponse # None /\ Status = 200 /\ Undecodable(Body)) =>
        /\ payload = <<>>
        /\ queries = <<>>
        /\ startLog = <<>>
        /\ done = {}
        /\ pc \in {"json", "main", "exited"}
        /\ (pc # "json" => result = Some(Err("Decode", 0)))

\* C7 witness: run ended on a 200 body whose bad data point follows decodable ones
C7_Witness ==
    /\ pc = "exited"
    /\ apiResponse # None
    /\ Status = 200
    /\ Body.json
    /\ Len(Body.data) > 2
    /\ HasUnknownComp(Body)
    /\ ~HasUnknownComp([json |-> TRUE, data |-> SubSeq(Body.data, 1, 2)])

\* C8: for every clock reading, upper is a multiple of 300, upper <= now < upper + 300
\* and lower = upper - 300; 2024-01-01T00:07:31Z gives 00:00:00Z .. 00:05:00Z.
C8_WindowAligned ==
    now # None =>
        LET t == Get(now)
            lower == Get(window)[1]
            upper == Get(window)[2]
        IN  /\ upper % 300 = 0
            /\ upper <= t
            /\ t < upper + 300
            /\ lower = upper - 300
            /\ (t = ExampleNow => upper = Epoch2024 + 300 /\ lower = Epoch2024)

\* C8 witness: the calculator applied to 2024-01-01T00:07:31Z
C8_Witness ==
    now = Some(ExampleNow) /\ window = Some(<<Epoch2024, Epoch2024 + 300>>)

\* C9: two clock readings in the same 300 second bucket give the identical window;
\* readings in different buckets give windows that do not overlap (they may touch).
C9_SameBucketSameWindow ==
    (now # None /\ prevNow # None) =>
        LET a == Get(prevNow)
            b == Get(now)
            wa == Get(prevWindow)
            wb == Get(window)
        IN  /\ (a \div 300 = b \div 300 => wa = wb)
            /\ (a \div 300 # b \div 300 => wa[2] <= wb[1] \/ wb[2] <= wa[1])

\* C9 witness: two different readings of one bucket, the later one at its last second
C9_Witness ==
    /\ now # None /\ prevNow # None
    /\ Get(prevNow) # Get(now)
    /\ Get(prevNow) \div 300 = Get(now) \div 300
    /\ Get(now) % 300 = 299

\* C10: the exit code is 0 exactly when the configuration was loaded, the response was
\* a 200 that decoded, and every record's write returned Ok; otherwise it is non-zero.
C10_ExitZeroIffAllSucceeded ==
    pc = "exited" =>
        /\ exitCode \in {Some(0), Some(1)}
        /\ (exitCode = Some(0) <=>
              /\ config # None
              /\ apiResponse # None
              /\ Status = 200
              /\ ~Undecodable(Body)
              /\ done = 1..Len(Body.data)
              /\ failed = <<>>)

\* C10 witness: a run that exits with 0 after writing a payload of several records
C10_Witness ==
    pc = "exited" /\ exitCode = Some(0) /\ Cardinality(done) > 1


\* C11: with a required configuration value missing the run ends in a configuration
\* error before any network activity: no GET is sent and no database write is started.
C11_ConfigErrorBeforeNetwork ==
    (pc # "load_config" /\ config = None) =>
        /\ result # None
        /\ ~Get(result).ok
        /\ Get(result).err.kind = "Config"
        /\ Get(result).err.detail >= 1
        /\ pc \in {"main", "exited"}
        /\ httpSent = 0
        /\ apiResponse = None
        /\ jsonCalls = 0
        /\ queries = <<>>
        /\ startLog = <<>>
        /\ db = {}
        /\ (pc = "exited" => exitCode = Some(1))

\* C11 witness: a run that has exited on a missing required variable
C11_Witness ==
    /\ pc = "exited"
    /\ config = None
    /\ result = Some(Err("Config", 1))
    /\ httpSent = 0

\* the measurement kinds of a bucket of a decoded data point, in order
FieldNames(ms, suffix) == [k \in 1..Len(ms) |-> field_name(ms[k].kind) \o suffix]

\* C12: the write record built for a data point with N sensor and M index measurements
\* has exactly 1 + N + M fields, "score", then one "<canonical>.sensor" per sensor and
\* one "<canonical>.index" per index measurement (repeated kinds included), and the one
\* tag device_id.  Stated of the record built last: every record is, when it is built.
C12_OnePlusNPlusMFields ==
    \A k \in {Len(queries)} \ {0} :
        LET q == queries[k]
            dp == payload[k]
            N == Len(dp.sensors)
            NM == Len(dp.sensors) + Len(dp.indices)
        IN  /\ Len(q.fields) = 1 + NM
            /\ q.fields[1] = <<"score", dp.score>>
            /\ \A j \in 1..N :
                  q.fields[1 + j] = <<FieldNames(dp.sensors, ".sensor")[j],
                                      dp.sensors[j].value>>
            /\ \A j \in 1..Len(dp.indices) :
                  q.fields[1 + N + j] = <<FieldNames(dp.indices, ".index")[j],
                                          dp.indices[j].value>>
            /\ q.tags = << <<"device_id", Get(config).device_id>> >>
            /\ q.timestamp = dp.timestamp

\* C12 witness: a record built for a data point that has one kind twice in a bucket
C12_Witness ==
    \E k \in 1..Len(queries) :
        /\ Len(payload[k].sensors) = 2
        /\ payload[k].sensors[1].kind = payload[k].sensors[2].kind
        /\ Len(queries[k].fields) = 4

\* C13: each of the six wire names decodes to exactly one kind, different wire names to
\* different kinds, any other name to none, and no two kinds share a field name; the
\* kinds of a payload just decoded are those of the body's wire names.
C13_WireNamesInjective ==
    /\ Cardinality(WireNames) = 6
    /\ \A w \in WireNames :
          /\ DeserializeMeasurementType(w) # None
          /\ Get(DeserializeMeasurementType(w)) \in MeasurementTypes
    /\ \A w1, w2 \in WireNames :
          DeserializeMeasurementType(w1) = DeserializeMeasurementType(w2) => w1 = w2
    /\ \A w \in {"lux", "CO2", "Temp", "temperature", ""} :
          DeserializeMeasurementType(w) = None
    /\ \A k1, k2 \in MeasurementTypes : field_name(k1) = field_name(k2) => k1 = k2
    /\ \A i \in 1..(IF queries = <<>> THEN Len(payload) ELSE 0) :
          /\ \A j \in 1..Len(payload[i].sensors) :
                Some(payload[i].sensors[j].kind) =
                    DeserializeMeasurementType(Body.data[i].sensors[j].comp)
          /\ {payload[i].sensors[j].kind : j \in 1..Len(payload[i].sensors)}
                \subseteq MeasurementTypes

\* C13 witness: a decoded data point whose sensors carry all six kinds
C13_Witness ==
    \E i \in 1..Len(payload) :
        {payload[i].sensors[j].kind : j \in 1..Len(payload[i].sensors)} = MeasurementTypes


\* C14: writes are started in the order of the data points of the response: the write
\* of a later data point is never started before that of an earlier one (writes may
\* complete in any order).
C14_StartedInSourceOrder ==
    /\ \A k \in 1..Len(startLog) : startLog[k] = k
    /\ \A k \in 1..Len(queries) : queries[k].timestamp = payload[k].timestamp

\* C14 witness: the second write has returned while the first is still in flight
C14_Witness ==
    /\ pc = "publish"
    /\ Len(startLog) >= 3
    /\ 2 \in done
    /\ 1 \in futures \ unpolled

\* C15: a record is built or a write started only after the fetch has returned a 200
\* and its body has been decoded, whole, by the one call of response.json().
C15_FetchAndDecodeFirst ==
    (queries # <<>> \/ startLog # <<>> \/ pc = "publish") =>
        /\ apiResponse # None
        /\ Status = 200
        /\ jsonCalls = 1
        /\ ~Undecodable(Body)
        /\ Len(payload) = Len(Body.data)
        /\ pc \in {"publish", "main", "exited"}

\* C15 witness: a write in flight during publish
C15_Witness ==
    pc = "publish" /\ Outstanding # {} /\ jsonCalls = 1

\* C16: a run that ends in success has issued exactly one write for each data point of
\* the decoded response: none skipped, none written twice.
C16_OneWritePerDataPoint ==
    (pc = "exited" /\ exitCode = Some(0)) =>
        /\ Len(payload) = Len(Body.data)
        /\ Len(startLog) = Len(payload)
        /\ Len(queries) = Len(payload)
        /\ \A i \in 1..Len(payload) :
              Cardinality({k \in 1..Len(startLog) : startLog[k] = i}) = 1
        /\ db = 1..Len(payload)

\* C16 witness: a successful run over a payload of the largest size of the model
C16_Witness ==
    pc = "exited" /\ exitCode = Some(0) /\ Len(payload) >= MaxRecords

\* C17: nothing is retried: at most one GET is sent, the body is decoded at most once,
\* each record's write is started at most once, and once the run has an error no
\* request is sent, nothing is decoded, built, started or completed any more.
C17_NoRetries ==
    [][ /\ httpSent' <= 1
        /\ jsonCalls' <= 1
        /\ \A a, b \in 1..Len(startLog') : startLog'[a] = startLog'[b] => a = b
        /\ ((result # None /\ ~Get(result).ok) =>
              /\ result' = result
              /\ httpSent' = httpSent
              /\ jsonCalls' = jsonCalls
              /\ apiResponse' = apiResponse
              /\ queries' = queries
              /\ startLog' = startLog
              /\ done' = done
              /\ pc' = "exited")
      ]_vars

\* C17 witness: a run that exited on a transport failure after its one GET
C17_Witness ==
    pc = "exited" /\ result = Some(Err("Transport", 0)) /\ httpSent = 1

\* C18: nothing is undone: a write the database has acknowledged stays in it, also
\* when the run fails, and a failed run leaves nothing in the database but writes that
\* had been started before the failure.
C18_NoRollback ==
    [][ /\ db \subseteq db'
        /\ done' \subseteq db'
        /\ db' \subseteq Range(startLog')
        /\ (failed # <<>> => db' = db /\ startLog' = startLog)
      ]_vars

\* C18 witness: a failed run that has exited with acknowledged writes in the database
C18_Witness ==
    pc = "exited" /\ exitCode = Some(1) /\ failed # <<>> /\ Cardinality(db) >= 2

\* C20: a decoded response of zero data points makes publish start no write and
\* return Ok, and the run exits with 0.
C20_EmptyPayloadSucceeds ==
    (apiResponse # None /\ Status = 200 /\ Body.json /\ Len(Body.data) = 0) =>
        /\ queries = <<>>
        /\ startLog = <<>>
        /\ failed = <<>>
        /\ (pc \in {"main", "exited"} => publishResult = Some(Ok) /\ result = Some(Ok))
        /\ (pc = "exited" => exitCode = Some(0))

\* C20 witness: a run over an empty data array that has exited
C20_Witness ==
    /\ pc = "exited"
    /\ apiResponse # None
    /\ Status = 200
    /\ Body.json
    /\ Len(Body.data) = 0
    /\ jsonCalls = 1


----------------------------------------------------------------------------
(* Termination.  The runtime keeps polling main's future while it can make a *)
(* step, and every network operation that was started (the GET, the read of  *)
(* the body, each write) returns: a step that stays possible is taken.       *)

FairSpec == Spec /\ WF_vars(Next)

\* publish has records left to dispatch and holds fewer futures than the limit
Undispatched == pc = "publish" /\ nextIdx <= Len(payload) /\ Cardinality(futures) < 10

\* C19: every run ends with exit code 0 or 1, provided every started network operation
\* returns; and while records are undispatched and fewer than 10 writes are held,
\* publish is never parked on the network: a step of its own loop is possible.
C19_RunTerminates ==
    /\ <>(pc = "exited" /\ exitCode \in {Some(0), Some(1)})
    /\ [](Undispatched => ENABLED (PollStream \/ StartWrite \/ PollNextPending))

\* C19 witness: an exited run that went through publish with more records than the limit
C19_Witness ==
    pc = "exited" /\ publishResult # None /\ Len(payload) > 10 /\ Len(startLog) > 10


====
